---- MODULE Spec2Model ----
(***************************************************************************)
(* PicoW PowerMonitor firmware (src/main.py, the script of lines 183-526). *)
(*                                                                         *)
(* One periodic timer callback (timer_fun, the tick) preempts a polling    *)
(* loop (main: key_scan, real_time_register_read, sleep).  The callback    *)
(* runs to completion, one called function per step; the polling loop can  *)
(* be preempted between any two of its steps.                              *)
(*                                                                         *)
(* Number representation (the firmware uses floats):                       *)
(*   cur_vol_v    volts                                                    *)
(*   cur_cur_mA   milliamps                                                *)
(*   cur_pwr_W    in units of 1/1000 W   (the code divides V*I by 1000.0)  *)
(*   con_pwr_mWh  in units of 1/3600 mWh (the code divides V*I by 3600.0)  *)
(***************************************************************************)
EXTENDS Integers, Sequences, FiniteSets, TLC

\* ------------------------------------------------------------------ bounds
MaxTicks   == 1      \* timer_fun invocations explored, with the polling loop
DeepTicks  == 4      \* timer_fun invocations explored, before the polling loop
MaxPubFail == 1      \* failing sends injected into one tick
MaxPolls   == 1      \* iterations of the polling loop explored
MaxJoin    == 1      \* polls of con_wifi that find the link still joining
OutageTicks == 34    \* ticks of the link outage that follows boot
LongTicks  == 44     \* timer_fun invocations explored, outage included
MaxSec     == 61     \* every elapsed time up to MaxSec seconds is formatted
FmtTicks   == 1      \* timer_fun invocations that format an elapsed time

\* ------------------------------------------------------- program constants
LoopMod       == 40  \* modulus of loop_rtc / loop_mqtt
\* (variant: the threshold one too low)
LoopThreshold_low == 3 - 1
\* (variant: the threshold one too high)
LoopThreshold_high == 3 + 1
LoopThreshold == 3   \* attempt threshold of loop_rtc / loop_mqtt
LoopInit      == 5   \* initial loop_rtc / loop_mqtt
WifiTimeout   == 10  \* poll budget of con_wifi
ShuntScale    == 10  \* ina.current * 10

\* --------------------------------------------------- environment's values
VoltSet   == {3}             \* values ina.bus_voltage delivers
RawCurSet == {-5, 60}        \* values ina.current delivers
StatusSet == {-1, 1, 3}      \* values sta_if.status() delivers
ScanSet   == {0, 1, 2}       \* len(i2c.scan())

PubFields == <<"str_tim", "str_vol_v", "str_vol_ma",
               "str_pwr_W", "str_vol_mWh", "upt_tim_str">>

VARIABLES
    \* globals of the script
    cur_vol_v, cur_cur_mA, cur_pwr_W, con_pwr_mWh, cum_tim_s,
    ntc_flag, mqtt_flag, loop_rtc, loop_mqtt,
    str_vol_v, str_vol_ma, str_pwr_W, str_vol_mWh, str_tim,
    addr_list,          \* len(addr_list), fixed at start-up
    \* environment
    timer_on,           \* tim.init has been called
    \* control
    tpc,                \* the statement of timer_fun to run next, or "idle"
    pc, wifi_ret, timeout,      \* position of main() and con_wifi's local
    \* history
    nticks,             \* timer_fun invocations so far
    npolls,             \* polling-loop iterations so far
    njoin,              \* con_wifi polls that found the link joining
    cum_start,          \* cum_tim_s when the current tick was entered
    pwr_start,          \* con_pwr_mWh when the current tick was entered
    tk_up,              \* some isconnected() of the current tick was true
    rtc_last,           \* tick of the last upd_rtc call, 0 before the first
    mqtt_last,          \* tick of the last con_mqtt_server call, 0 if none
    held_n,             \* ticks, counted from the one entered with energy 0,
                        \* over which the Reading has stayed the same; 0 if
                        \* it changed
    wait_rtc,           \* consecutive ticks whose check_rtc saw the flag 0
                        \* and the link up and made no attempt
    wait_mqtt,          \* the same for check_mqtt_con
    ev                  \* what the last step did and saw

globals == <<cur_vol_v, cur_cur_mA, cur_pwr_W, con_pwr_mWh, cum_tim_s,
             ntc_flag, mqtt_flag, loop_rtc, loop_mqtt,
             str_vol_v, str_vol_ma, str_pwr_W, str_vol_mWh, str_tim>>
mainvars == <<pc, wifi_ret, timeout, npolls, njoin>>
tickvars == <<tpc, nticks, cum_start, pwr_start, tk_up, rtc_last, mqtt_last>>
histvars == <<held_n, wait_rtc, wait_mqtt>>
vars == <<globals, addr_list, timer_on, mainvars, tickvars, histvars, ev>>

\* ------------------------------------------------------------- formatting
Digits == <<"0", "1", "2", "3", "4", "5", "6", "7", "8", "9">>

RECURSIVE str(_)
\* str(val) of a non-negative int
str(n) == IF n < 10 THEN Digits[n + 1]
          ELSE str(n \div 10) \o Digits[(n % 10) + 1]

RECURSIVE NumDigits(_)
NumDigits(n) == IF n < 10 THEN 1 ELSE 1 + NumDigits(n \div 10)

RECURSIVE Zeros(_)
\* '0' * k : the empty string when k <= 0
Zeros(k) == IF k <= 0 THEN "" ELSE "0" \o Zeros(k - 1)

\* i2s_l: pad with leading zeroes to at least `length` characters
i2s_l(val, length) == Zeros(length - NumDigits(val)) \o str(val)

\* (variant: the hours wrap at 100)
sec_to_str_wrap(sec) ==
    LET h == (sec \div 3600) % 100
        m == (sec % 3600) \div 60
        s == sec % 60
    IN  i2s_l(h, 2) \o ":" \o i2s_l(m, 2) \o ":" \o i2s_l(s, 2)

\* sec_to_str: seconds -> hh:mm:ss
sec_to_str(sec) ==
    LET h == sec \div 3600
        m == (sec % 3600) \div 60
        s == sec % 60
    IN  i2s_l(h, 2) \o ":" \o i2s_l(m, 2) \o ":" \o i2s_l(s, 2)

\* "{:.0f}".format(num/den): round to nearest, ties to even
Round0(num, den) ==
    LET q == num \div den
        r == num % den
    IN  IF 2 * r < den THEN q
        ELSE IF 2 * r > den THEN q + 1
        ELSE IF q % 2 = 0 THEN q ELSE q + 1

Fmt3f_V(v)     == str(v) \o ".000"                \* "{:.3f}".format(cur_vol_v)
Fmt1f_mA(i)    == str(i) \o ".0"                  \* "{:.1f}".format(cur_cur_mA)
Fmt3f_W(p)     == str(p \div 1000) \o "." \o i2s_l(p % 1000, 3)
Fmt0f_mWh(e)   == str(Round0(e, 3600))            \* "{:.0f}".format(con_pwr_mWh)


\* ------------------------------------------------------------ step helpers
\* the record a step leaves in ev: which step, and what it saw and did
Ev(step) == [step |-> step, exc |-> "none", link |-> FALSE,
             cnt |-> -1, flag |-> -1, try |-> FALSE, ok |-> FALSE, prev |-> 0,
             pubs |-> << >>, pub_err |-> FALSE, shown |-> << >>,
             raw |-> 0, wait |-> 0, st |-> << >>]

\* the globals as one record
State == [cur_vol_v |-> cur_vol_v, cur_cur_mA |-> cur_cur_mA,
          cur_pwr_W |-> cur_pwr_W, con_pwr_mWh |-> con_pwr_mWh,
          cum_tim_s |-> cum_tim_s, ntc_flag |-> ntc_flag,
          mqtt_flag |-> mqtt_flag, loop_rtc |-> loop_rtc,
          loop_mqtt |-> loop_mqtt, str_vol_v |-> str_vol_v,
          str_vol_ma |-> str_vol_ma, str_pwr_W |-> str_pwr_W,
          str_vol_mWh |-> str_vol_mWh, str_tim |-> str_tim,
          addr_list |-> addr_list, ev |-> ev]

\* a function called by timer_fun is entered
Call(s, name) == [s EXCEPT !.ev = Ev(name)]

\* an exception leaves the callee and, uncaught, timer_fun
Raise(s, what) == [s EXCEPT !.ev.exc = what]

\* ------------------------------------------------- the functions of a tick
\* get_strftime: the timestamp text is not modelled, only the call
get_strftime(s) == Call(s, "get_strftime")

\* (variant: a negative current is not clamped)
get_pwr_V_ma_noclamp(s, in) ==
    LET c  == Call(s, "get_pwr_V_ma")
        v  == [c EXCEPT !.cur_vol_v = in.v]
        i  == [v EXCEPT !.cur_cur_mA = in.i * ShuntScale, !.ev.raw = in.i]
        pw(x) == [x EXCEPT !.cur_pwr_W = x.cur_vol_v * x.cur_cur_mA]
    IN  IF c.addr_list = 1
        THEN IF ~in.v_ok THEN Raise(c, "sensor")
             ELSE IF ~in.i_ok THEN Raise(v, "sensor")
             ELSE pw(i)
        ELSE pw(c)

\* get_pwr_V_ma: fetch voltage and current, clamp, derive power.
\* in.v_ok / in.i_ok: the register read behind ina.bus_voltage / ina.current
\* returns; when it does not, the exception is not caught here.
get_pwr_V_ma(s, in) ==
    LET c  == Call(s, "get_pwr_V_ma")
        v  == [c EXCEPT !.cur_vol_v = in.v]
        i  == [v EXCEPT !.cur_cur_mA = in.i * ShuntScale, !.ev.raw = in.i]
        cl(x) == IF x.cur_cur_mA < 0 THEN [x EXCEPT !.cur_cur_mA = 0] ELSE x
        pw(x) == [x EXCEPT !.cur_pwr_W = x.cur_vol_v * x.cur_cur_mA]
    IN  IF c.addr_list = 1
        THEN IF ~in.v_ok THEN Raise(c, "sensor")
             ELSE IF ~in.i_ok THEN Raise(v, "sensor")
             ELSE pw(cl(i))
        ELSE pw(cl(c))

\* get_pwr_mWh: integrate power over the 1 s interval
get_pwr_mWh(s) ==
    LET c == Call(s, "get_pwr_mWh")
    IN  [c EXCEPT !.con_pwr_mWh = @ + c.cur_vol_v * c.cur_cur_mA]

led_toggle(s) == Call(s, "led_toggle")

\* (variant: the except clause leaves the flag set)
upd_rtc_sticky(s, ok) ==
    [s EXCEPT !.ntc_flag = 1, !.ev.try = TRUE, !.ev.ok = ok]

\* upd_rtc: ntptime.settime() inside try/except
upd_rtc(s, ok) ==
    [s EXCEPT !.ntc_flag = IF ok THEN 1 ELSE 0,
              !.ev.try = TRUE, !.ev.ok = ok]

\* (variant: the outcome of the broker connect is written to both flags)
con_mqtt_server_shared(s, ok) ==
    [s EXCEPT !.mqtt_flag = IF ok THEN 1 ELSE 0,
              !.ntc_flag = IF ok THEN 1 ELSE 0,
              !.ev.try = TRUE, !.ev.ok = ok]

\* con_mqtt_server: mqtt_c.connect(False) inside try/except
con_mqtt_server(s, ok) ==
    [s EXCEPT !.mqtt_flag = IF ok THEN 1 ELSE 0,
              !.ev.try = TRUE, !.ev.ok = ok]

\* (variant: the counter is not restarted after the attempt)
check_rtc_noreset(s, link, ok) ==
    LET c == Call(s, "check_rtc")
        n == [c EXCEPT !.loop_rtc = (@ + 1) % LoopMod]
        g == [n EXCEPT !.ev.cnt = n.loop_rtc, !.ev.flag = n.ntc_flag,
                       !.ev.link = link]
    IN  IF g.loop_rtc >= LoopThreshold /\ g.ntc_flag = 0 /\ link
        THEN upd_rtc(g, ok)
        ELSE g

\* (variant: the counter is not taken modulo 40)
check_rtc_nowrap(s, link, ok) ==
    LET c == Call(s, "check_rtc")
        n == [c EXCEPT !.loop_rtc = @ + 1]
        g == [n EXCEPT !.ev.cnt = n.loop_rtc, !.ev.flag = n.ntc_flag,
                       !.ev.link = link]
    IN  IF g.loop_rtc >= LoopThreshold /\ g.ntc_flag = 0 /\ link
        THEN [upd_rtc(g, ok) EXCEPT !.loop_rtc = 0]
        ELSE g

\* check_rtc.  ev keeps what the guard saw: the counter after the
\* increment, the flag, the link.
check_rtc(s, link, ok) ==
    LET c == Call(s, "check_rtc")
        n == [c EXCEPT !.loop_rtc = (@ + 1) % LoopMod]
        g == [n EXCEPT !.ev.cnt = n.loop_rtc, !.ev.flag = n.ntc_flag,
                       !.ev.link = link]
    IN  IF g.loop_rtc >= LoopThreshold /\ g.ntc_flag = 0 /\ link
        THEN [upd_rtc(g, ok) EXCEPT !.loop_rtc = 0]
        ELSE g

\* (variant: the guard does not ask for the link)
check_mqtt_con_nolink(s, link, ok) ==
    LET c == Call(s, "check_mqtt_con")
        n == [c EXCEPT !.loop_mqtt = (@ + 1) % LoopMod]
        g == [n EXCEPT !.ev.cnt = n.loop_mqtt, !.ev.flag = n.mqtt_flag,
                       !.ev.link = link]
    IN  IF g.loop_mqtt >= LoopThreshold /\ g.mqtt_flag = 0
        THEN [con_mqtt_server(g, ok) EXCEPT !.loop_mqtt = 0]
        ELSE g

\* (variant: the guard does not ask for the flag)
check_mqtt_con_noflag(s, link, ok) ==
    LET c == Call(s, "check_mqtt_con")
        n == [c EXCEPT !.loop_mqtt = (@ + 1) % LoopMod]
        g == [n EXCEPT !.ev.cnt = n.loop_mqtt, !.ev.flag = n.mqtt_flag,
                       !.ev.link = link]
    IN  IF g.loop_mqtt >= LoopThreshold /\ link
        THEN [con_mqtt_server(g, ok) EXCEPT !.loop_mqtt = 0]
        ELSE g

check_mqtt_con(s, link, ok) ==
    LET c == Call(s, "check_mqtt_con")
        n == [c EXCEPT !.loop_mqtt = (@ + 1) % LoopMod]
        g == [n EXCEPT !.ev.cnt = n.loop_mqtt, !.ev.flag = n.mqtt_flag,
                       !.ev.link = link]
    IN  IF g.loop_mqtt >= LoopThreshold /\ g.mqtt_flag = 0 /\ link
        THEN [con_mqtt_server(g, ok) EXCEPT !.loop_mqtt = 0]
        ELSE g

tran_to_str(s) ==
    LET c == Call(s, "tran_to_str")
    IN  [c EXCEPT !.str_vol_v   = Fmt3f_V(c.cur_vol_v),
                  !.str_vol_ma  = Fmt1f_mA(c.cur_cur_mA),
                  !.str_pwr_W   = Fmt3f_W(c.cur_pwr_W),
                  !.str_vol_mWh = Fmt0f_mWh(c.con_pwr_mWh),
                  !.str_tim     = sec_to_str(c.cum_tim_s)]

\* show_msg: six tft.write calls, none inside a try; a display fault
\* (disp_ok = FALSE) is raised by the first write
show_msg(s, link, disp_ok) ==
    LET c == [Call(s, "show_msg") EXCEPT !.ev.link = link]
    IN  IF ~disp_ok THEN Raise(c, "display")
        ELSE [c EXCEPT !.ev.shown =
                 << c.str_vol_v \o "V   ", c.str_vol_ma \o "mA  ",
                    c.str_vol_mWh \o "mWh ", c.str_pwr_W \o "W   ",
                    IF link THEN "Connected" ELSE "Disconnected",
                    "upt_tim_str" >>]

\* the payload mqtt_check_msg sends for the k-th field
Payload(s, k) ==
    CASE k = 1 -> s.str_tim
      [] k = 2 -> s.str_vol_v
      [] k = 3 -> s.str_vol_ma
      [] k = 4 -> s.str_pwr_W
      [] k = 5 -> s.str_vol_mWh
      [] k = 6 -> "upt_tim_str"

RECURSIVE Publish(_, _, _)
\* the six publish calls share one try: the first send that raises (its
\* index is in `fail`) ends the block, the except clause prints
Publish(s, k, fail) ==
    IF k > Len(PubFields) THEN s
    ELSE LET p == [s EXCEPT !.ev.pubs =
                       Append(@, <<PubFields[k], Payload(s, k)>>)]
         IN  IF k \in fail THEN [p EXCEPT !.ev.pub_err = TRUE]
             ELSE Publish(p, k + 1, fail)

\* (variant: nothing is sent before the broker connect has succeeded)
mqtt_check_msg_flag(s, link, fail) ==
    LET c == [Call(s, "mqtt_check_msg") EXCEPT !.ev.link = link]
    IN  IF link /\ c.mqtt_flag = 1 THEN Publish(c, 1, fail) ELSE c

\* mqtt_check_msg: the sends are made when sta_if.isconnected() says so
mqtt_check_msg(s, link, fail) ==
    LET c == [Call(s, "mqtt_check_msg") EXCEPT !.ev.link = link]
    IN  IF link THEN Publish(c, 1, fail) ELSE c

\* cum_tim_s += 1
inc_cum_tim(s) ==
    LET c == Call(s, "inc")
    IN  [c EXCEPT !.cum_tim_s = @ + 1]

\* ------------------------------------------------------------------ Init
\* the globals as lines 219-236 set them; main() has not run yet
Init ==
    /\ cur_vol_v = 0 /\ cur_cur_mA = 0 /\ cur_pwr_W = 0
    /\ con_pwr_mWh = 0 /\ cum_tim_s = 0
    /\ ntc_flag = 0 /\ mqtt_flag = 0
    /\ loop_rtc = LoopInit /\ loop_mqtt = LoopInit
    /\ str_vol_v = "0.0" /\ str_vol_ma = "0" /\ str_pwr_W = "0.0"
    /\ str_vol_mWh = "0" /\ str_tim = "00:00:00"
    /\ addr_list \in ScanSet
    /\ timer_on = FALSE
    /\ tpc = "idle"
    /\ pc = "main" /\ wifi_ret = "main" /\ timeout = 0
    /\ nticks = 0 /\ npolls = 0 /\ njoin = 0
    /\ cum_start = 0 /\ pwr_start = 0 /\ tk_up = FALSE
    /\ rtc_last = 0 /\ mqtt_last = 0
    /\ held_n = 0 /\ wait_rtc = 0 /\ wait_mqtt = 0
    /\ ev = Ev("boot")

\* ------------------------------------------------------ the timer callback
\* (variant: the elapsed counter is incremented before the snapshot is formatted)
TimerFunBody_inc_early == << "get_strftime", "get_pwr_V_ma", "get_pwr_mWh",
                             "led_toggle", "check_rtc", "inc", "tran_to_str",
                             "show_msg", "check_mqtt_con", "mqtt_check_msg" >>

\* the statements of timer_fun, in source order
TimerFunBody == << "get_strftime", "get_pwr_V_ma", "get_pwr_mWh",
                   "led_toggle", "check_rtc", "tran_to_str", "show_msg",
                   "check_mqtt_con", "mqtt_check_msg", "inc" >>

\* the statement after `name`, "idle" (return) after the last one
After(name) ==
    LET k == CHOOSE j \in 1..Len(TimerFunBody) : TimerFunBody[j] = name
    IN  IF k = Len(TimerFunBody) THEN "idle" ELSE TimerFunBody[k + 1]

\* the state a statement of timer_fun leaves: r is the record its function
\* returned; an exception it raised is not caught by timer_fun, which ends
Commit(r, name) ==
    /\ cur_vol_v' = r.cur_vol_v /\ cur_cur_mA' = r.cur_cur_mA
    /\ cur_pwr_W' = r.cur_pwr_W /\ con_pwr_mWh' = r.con_pwr_mWh
    /\ cum_tim_s' = r.cum_tim_s
    /\ ntc_flag' = r.ntc_flag /\ mqtt_flag' = r.mqtt_flag
    /\ loop_rtc' = r.loop_rtc /\ loop_mqtt' = r.loop_mqtt
    /\ str_vol_v' = r.str_vol_v /\ str_vol_ma' = r.str_vol_ma
    /\ str_pwr_W' = r.str_pwr_W /\ str_vol_mWh' = r.str_vol_mWh
    /\ str_tim' = r.str_tim
    /\ tpc' = (IF r.ev.exc = "none" THEN After(name) ELSE "idle")
    /\ UNCHANGED <<addr_list, timer_on, mainvars, nticks, cum_start, pwr_start>>

\* the periodic timer fires and timer_fun is entered
TimerFireB(max) ==
    /\ timer_on
    /\ tpc = "idle"
    /\ nticks < max
    /\ nticks' = nticks + 1
    /\ tpc' = TimerFunBody[1]
    /\ cum_start' = cum_tim_s
    /\ pwr_start' = con_pwr_mWh
    /\ tk_up' = FALSE
    /\ ev' = Ev("timer_fun")
    /\ UNCHANGED <<globals, addr_list, timer_on, mainvars, rtc_last, mqtt_last,
                   histvars>>

TimerFire == TimerFireB(MaxTicks)

Tick_get_strftime ==
    /\ tpc = "get_strftime"
    /\ LET r == get_strftime(State)
       IN  Commit(r, "get_strftime") /\ ev' = r.ev
    /\ UNCHANGED <<tk_up, rtc_last, mqtt_last, histvars>>

\* held_n after the sample that returned r: the tick entered with energy 0
\* is the first of a run, a later tick goes on with the run if the Reading
\* is the one of the tick before
HeldNext(r) ==
    IF pwr_start = 0 THEN 1
    ELSE IF held_n > 0 /\ r.cur_vol_v = cur_vol_v /\ r.cur_cur_mA = cur_cur_mA
         THEN held_n + 1
         ELSE 0

\* the wait of a retry machine after its check left the event e
WaitNext(w, e) == IF e.flag = 0 /\ e.link /\ ~e.try THEN w + 1 ELSE 0

\* the answers of the two register reads are inputs
Tick_get_pwr_V_ma ==
    /\ tpc = "get_pwr_V_ma"
    /\ \E v_ok \in (IF addr_list = 1 THEN BOOLEAN ELSE {TRUE}) :
       \E v \in (IF addr_list = 1 /\ v_ok THEN VoltSet ELSE {0}) :
       \E i_ok \in (IF addr_list = 1 /\ v_ok THEN BOOLEAN ELSE {TRUE}) :
       \E i \in (IF addr_list = 1 /\ v_ok /\ i_ok THEN RawCurSet ELSE {0}) :
          LET r == get_pwr_V_ma(State, [v_ok |-> v_ok, v |-> v,
                                        i_ok |-> i_ok, i |-> i])
          IN  /\ Commit(r, "get_pwr_V_ma") /\ ev' = r.ev
              /\ held_n' = HeldNext(r)
              /\ wait_rtc' = (IF r.ev.exc = "none" THEN wait_rtc ELSE 0)
              /\ wait_mqtt' = (IF r.ev.exc = "none" THEN wait_mqtt ELSE 0)
    /\ UNCHANGED <<tk_up, rtc_last, mqtt_last>>

Tick_get_pwr_mWh ==
    /\ tpc = "get_pwr_mWh"
    /\ LET r == get_pwr_mWh(State)
       IN  Commit(r, "get_pwr_mWh") /\ ev' = r.ev
    /\ UNCHANGED <<tk_up, rtc_last, mqtt_last, histvars>>

Tick_led_toggle ==
    /\ tpc = "led_toggle"
    /\ LET r == led_toggle(State)
       IN  Commit(r, "led_toggle") /\ ev' = r.ev
    /\ UNCHANGED <<tk_up, rtc_last, mqtt_last, histvars>>

\* sta_if.isconnected() and the outcome of ntptime.settime() are inputs
Tick_check_rtc ==
    /\ tpc = "check_rtc"
    /\ \E link \in BOOLEAN :
       \E ok \in (IF link THEN BOOLEAN ELSE {FALSE}) :
          LET r == check_rtc(State, link, ok)
          IN  /\ Commit(r, "check_rtc")
              /\ ev' = [r.ev EXCEPT !.prev = rtc_last, !.wait = wait_rtc]
              /\ rtc_last' = (IF r.ev.try THEN nticks ELSE rtc_last)
              /\ wait_rtc' = WaitNext(wait_rtc, r.ev)
              /\ tk_up' = (tk_up \/ link)
    /\ UNCHANGED <<mqtt_last, held_n, wait_mqtt>>

Tick_tran_to_str ==
    /\ tpc = "tran_to_str"
    /\ LET r == tran_to_str(State)
       IN  Commit(r, "tran_to_str") /\ ev' = r.ev
    /\ UNCHANGED <<tk_up, rtc_last, mqtt_last, histvars>>

\* sta_if.isconnected() and the health of the display are inputs
Tick_show_msg ==
    /\ tpc = "show_msg"
    /\ \E link \in BOOLEAN, disp_ok \in BOOLEAN :
          LET r == show_msg(State, link, disp_ok)
          IN  /\ Commit(r, "show_msg") /\ ev' = r.ev
              /\ tk_up' = (tk_up \/ (disp_ok /\ link))
              /\ wait_mqtt' = (IF disp_ok THEN wait_mqtt ELSE 0)
    /\ UNCHANGED <<rtc_last, mqtt_last, held_n, wait_rtc>>

\* sta_if.isconnected() and the outcome of mqtt_c.connect() are inputs
Tick_check_mqtt_con ==
    /\ tpc = "check_mqtt_con"
    /\ \E link \in BOOLEAN :
       \E ok \in (IF link THEN BOOLEAN ELSE {FALSE}) :
          LET r == check_mqtt_con(State, link, ok)
          IN  /\ Commit(r, "check_mqtt_con")
              /\ ev' = [r.ev EXCEPT !.prev = mqtt_last, !.wait = wait_mqtt]
              /\ mqtt_last' = (IF r.ev.try THEN nticks ELSE mqtt_last)
              /\ wait_mqtt' = WaitNext(wait_mqtt, r.ev)
              /\ tk_up' = (tk_up \/ link)
    /\ UNCHANGED <<rtc_last, held_n, wait_rtc>>

PubFailSets == {F \in SUBSET (1..Len(PubFields)) : Cardinality(F) <= MaxPubFail}

\* sta_if.isconnected() and the sends that raise are inputs
Tick_mqtt_check_msg ==
    /\ tpc = "mqtt_check_msg"
    /\ \E link \in BOOLEAN :
       \E fail \in (IF link THEN PubFailSets ELSE {{}}) :
          LET r == mqtt_check_msg(State, link, fail)
          IN  /\ Commit(r, "mqtt_check_msg") /\ ev' = r.ev
              /\ tk_up' = (tk_up \/ link)
    /\ UNCHANGED <<rtc_last, mqtt_last, histvars>>

Tick_inc ==
    /\ tpc = "inc"
    /\ LET r == inc_cum_tim(State)
       IN  Commit(r, "inc") /\ ev' = r.ev
    /\ UNCHANGED <<tk_up, rtc_last, mqtt_last, histvars>>

\* ------------------------------------------------------- the polling loop
\* A step of main() runs while the callback is not running.
\* what a step of main() leaves alone besides the variables it names
MainFrame == <<addr_list, tickvars, histvars>>

\* main(): tim.init, set_callback, init_msg, show_msg, then con_wifi()
MainStart ==
    /\ tpc = "idle" /\ pc = "main"
    /\ timer_on' = TRUE
    /\ pc' = "con_wifi" /\ wifi_ret' = "main"
    /\ ev' = Ev("main")
    /\ UNCHANGED <<globals, MainFrame, timeout, npolls, njoin>>

\* con_wifi: timeout = 10; sta_if.connect(ssid, pswd)
ConWifiConnect ==
    /\ tpc = "idle" /\ pc = "con_wifi"
    /\ timeout' = WifiTimeout
    /\ pc' = "wifi_poll"
    /\ ev' = Ev("con_wifi")
    /\ UNCHANGED <<globals, MainFrame, timer_on, wifi_ret, npolls, njoin>>

\* the status() calls of one break test: the second call is made only when
\* the first answer is not negative
StatusReads == {<<st1>> : st1 \in {s \in StatusSet : s < 0}}
               \cup {<<st1, st2>> : st1 \in {s \in StatusSet : s >= 0},
                                    st2 \in StatusSet}

\* sta_if.status() < 0 or sta_if.status() >= 3
BreakTest(st) == st[1] < 0 \/ st[2] >= 3

\* (variant: the poll budget is not counted down)
ConWifiPollB_nodec(capped) ==
    /\ tpc = "idle" /\ pc = "wifi_poll"
    /\ IF timeout > 0
       THEN \E st \in StatusReads :
               /\ ev' = [Ev("wifi_poll") EXCEPT !.st = st]
               /\ IF BreakTest(st)
                  THEN pc' = "wifi_done" /\ timeout' = timeout /\ njoin' = njoin
                  ELSE /\ capped => njoin < MaxJoin
                       /\ pc' = "wifi_poll" /\ timeout' = timeout
                       /\ njoin' = (IF capped THEN njoin + 1 ELSE njoin)
       ELSE /\ pc' = "wifi_done" /\ timeout' = timeout /\ njoin' = njoin
            /\ ev' = Ev("wifi_poll")
    /\ UNCHANGED <<globals, MainFrame, timer_on, wifi_ret, npolls>>

\* con_wifi: the while condition, the break test, the decrement, the sleep.
\* capped: the polls that find the link still joining are counted in njoin
\* and limited to MaxJoin.
ConWifiPollB(capped) ==
    /\ tpc = "idle" /\ pc = "wifi_poll"
    /\ IF timeout > 0
       THEN \E st \in StatusReads :
               /\ ev' = [Ev("wifi_poll") EXCEPT !.st = st]
               /\ IF BreakTest(st)
                  THEN pc' = "wifi_done" /\ timeout' = timeout /\ njoin' = njoin
                  ELSE /\ capped => njoin < MaxJoin
                       /\ pc' = "wifi_poll" /\ timeout' = timeout - 1
                       /\ njoin' = (IF capped THEN njoin + 1 ELSE njoin)
       ELSE /\ pc' = "wifi_done" /\ timeout' = timeout /\ njoin' = njoin
            /\ ev' = Ev("wifi_poll")
    /\ UNCHANGED <<globals, MainFrame, timer_on, wifi_ret, npolls>>

ConWifiPoll == ConWifiPollB(TRUE)

\* con_wifi: print the config and return to the caller
ConWifiReturn ==
    /\ tpc = "idle" /\ pc = "wifi_done"
    /\ pc' = (IF wifi_ret = "main" THEN "key1" ELSE "reg_read")
    /\ ev' = Ev("wifi_done")
    /\ UNCHANGED <<globals, MainFrame, timer_on, wifi_ret, timeout, npolls, njoin>>

\* key_scan: if key1.value() == 0
KeyScanKey1 ==
    /\ tpc = "idle" /\ pc = "key1"
    /\ npolls < MaxPolls
    /\ \E k \in {0, 1} : pc' = (IF k = 0 THEN "reset_tim" ELSE "key2")
    /\ ev' = Ev("key1")
    /\ UNCHANGED <<globals, MainFrame, timer_on, wifi_ret, timeout, npolls, njoin>>

\* key_scan: cum_tim_s = 0
ResetTim ==
    /\ tpc = "idle" /\ pc = "reset_tim"
    /\ cum_tim_s' = 0
    /\ pc' = "reset_pwr"
    /\ ev' = Ev("reset_tim")
    /\ UNCHANGED <<cur_vol_v, cur_cur_mA, cur_pwr_W, con_pwr_mWh,
                   ntc_flag, mqtt_flag, loop_rtc, loop_mqtt,
                   str_vol_v, str_vol_ma, str_pwr_W, str_vol_mWh, str_tim,
                   MainFrame, timer_on, wifi_ret, timeout, npolls, njoin>>

\* key_scan: con_pwr_mWh = 0
ResetPwr ==
    /\ tpc = "idle" /\ pc = "reset_pwr"
    /\ con_pwr_mWh' = 0
    /\ pc' = "key2"
    /\ ev' = Ev("reset_pwr")
    /\ UNCHANGED <<cur_vol_v, cur_cur_mA, cur_pwr_W, cum_tim_s,
                   ntc_flag, mqtt_flag, loop_rtc, loop_mqtt,
                   str_vol_v, str_vol_ma, str_pwr_W, str_vol_mWh, str_tim,
                   MainFrame, timer_on, wifi_ret, timeout, npolls, njoin>>

\* key_scan: if key2.value() == 0: con_wifi()
KeyScanKey2 ==
    /\ tpc = "idle" /\ pc = "key2"
    /\ \E k \in {0, 1} :
          IF k = 0 THEN pc' = "con_wifi" /\ wifi_ret' = "key_scan"
                   ELSE pc' = "reg_read" /\ wifi_ret' = wifi_ret
    /\ ev' = Ev("key2")
    /\ UNCHANGED <<globals, MainFrame, timer_on, timeout, npolls, njoin>>

\* real_time_register_read: reads and prints, catches its own errors
RegisterRead ==
    /\ tpc = "idle" /\ pc = "reg_read"
    /\ pc' = "sleep"
    /\ ev' = Ev("reg_read")
    /\ UNCHANGED <<globals, MainFrame, timer_on, wifi_ret, timeout, npolls, njoin>>

\* time.sleep(1), then the next iteration of while True
MainSleep ==
    /\ tpc = "idle" /\ pc = "sleep"
    /\ pc' = "key1"
    /\ npolls' = npolls + 1
    /\ ev' = Ev("sleep")
    /\ UNCHANGED <<globals, MainFrame, timer_on, wifi_ret, timeout, njoin>>

Next ==
    \/ TimerFire
    \/ Tick_get_strftime
    \/ Tick_get_pwr_V_ma
    \/ Tick_get_pwr_mWh
    \/ Tick_led_toggle
    \/ Tick_check_rtc
    \/ Tick_tran_to_str
    \/ Tick_show_msg
    \/ Tick_check_mqtt_con
    \/ Tick_mqtt_check_msg
    \/ Tick_inc
    \/ MainStart
    \/ ConWifiConnect
    \/ ConWifiPoll
    \/ ConWifiReturn
    \/ KeyScanKey1
    \/ ResetTim
    \/ ResetPwr
    \/ KeyScanKey2
    \/ RegisterRead
    \/ MainSleep

Spec == Init /\ [][Next]_vars

\* The first seconds after boot: main() has started the timer and blocks in
\* con_wifi; no key is scanned yet, so only the callback changes the globals.
TimerFireDeep == TimerFireB(DeepTicks)

NextDeep ==
    \/ TimerFireDeep
    \/ Tick_get_strftime
    \/ Tick_get_pwr_V_ma
    \/ Tick_get_pwr_mWh
    \/ Tick_led_toggle
    \/ Tick_check_rtc
    \/ Tick_tran_to_str
    \/ Tick_show_msg
    \/ Tick_check_mqtt_con
    \/ Tick_mqtt_check_msg
    \/ Tick_inc
    \/ MainStart

SpecDeep == Init /\ [][NextDeep]_vars

\* The polling loop alone, with con_wifi free to use up its whole budget.
\* timer_fun is left out: it writes neither timeout nor the position of
\* main().  main() is never left waiting: each of its steps is taken
\* eventually.
ConWifiPollAll == ConWifiPollB(FALSE)

NextWifi ==
    \/ MainStart
    \/ ConWifiConnect
    \/ ConWifiPollAll
    \/ ConWifiReturn
    \/ KeyScanKey1
    \/ ResetTim
    \/ ResetPwr
    \/ KeyScanKey2
    \/ RegisterRead
    \/ MainSleep

SpecWifi == Init /\ [][NextWifi]_vars /\ WF_vars(NextWifi)

\* A long run: the link is down for the first OutageTicks ticks after boot
\* and does what it likes afterwards; the sensor, the display and the sends
\* do not fail and the current read is not negative, so that every tick runs
\* all its statements.
Quiet ==
    /\ ev'.exc = "none" /\ ~ev'.pub_err /\ ev'.raw >= 0
    /\ (nticks <= OutageTicks) => ~ev'.link

Long(step) == step /\ Quiet

TimerFireLong == TimerFireB(LongTicks)

NextLong ==
    \/ TimerFireLong
    \/ Long(Tick_get_strftime)
    \/ Long(Tick_get_pwr_V_ma)
    \/ Long(Tick_get_pwr_mWh)
    \/ Long(Tick_led_toggle)
    \/ Long(Tick_check_rtc)
    \/ Long(Tick_tran_to_str)
    \/ Long(Tick_show_msg)
    \/ Long(Tick_check_mqtt_con)
    \/ Long(Tick_mqtt_check_msg)
    \/ Long(Tick_inc)
    \/ MainStart

SpecLong == Init /\ [][NextLong]_vars

\* Formatting of elapsed times: the device has been up for some time (the
\* elapsed counter is one of SecSet, main() is in its polling loop) and a
\* tick formats the counter; the link is down and nothing fails.
SecSet == (0..MaxSec) \cup {599, 600, 3599, 3600, 3661, 35999, 36000, 86399,
                            86400, 359999, 360000, 363661, 3600000}

InitFmt ==
    /\ cur_vol_v = 0 /\ cur_cur_mA = 0 /\ cur_pwr_W = 0
    /\ con_pwr_mWh = 0 /\ cum_tim_s \in SecSet
    /\ ntc_flag = 0 /\ mqtt_flag = 0
    /\ loop_rtc = LoopInit /\ loop_mqtt = LoopInit
    /\ str_vol_v = "0.0" /\ str_vol_ma = "0" /\ str_pwr_W = "0.0"
    /\ str_vol_mWh = "0" /\ str_tim = "00:00:00"
    /\ addr_list \in ScanSet
    /\ timer_on = TRUE
    /\ tpc = "idle"
    /\ pc = "key1" /\ wifi_ret = "main" /\ timeout = 0
    /\ nticks = 0 /\ npolls = 0 /\ njoin = 0
    /\ cum_start = 0 /\ pwr_start = 0 /\ tk_up = FALSE
    /\ rtc_last = 0 /\ mqtt_last = 0
    /\ held_n = 0 /\ wait_rtc = 0 /\ wait_mqtt = 0
    /\ ev = Ev("boot")

TimerFireFmt == TimerFireB(FmtTicks)

NextFmt ==
    \/ TimerFireFmt
    \/ Long(Tick_get_strftime)
    \/ Long(Tick_get_pwr_V_ma)
    \/ Long(Tick_get_pwr_mWh)
    \/ Long(Tick_led_toggle)
    \/ Long(Tick_check_rtc)
    \/ Long(Tick_tran_to_str)
    \/ Long(Tick_show_msg)
    \/ Long(Tick_check_mqtt_con)
    \/ Long(Tick_mqtt_check_msg)
    \/ Long(Tick_inc)

SpecFmt == InitFmt /\ [][NextFmt]_vars

\* ================================================================ claims
TickSteps   == {TimerFunBody[k] : k \in 1..Len(TimerFunBody)}
\* timer_fun has just returned, normally or by an exception
TickReturned == tpc = "idle" /\ ev.step \in TickSteps
\* the last step was the check of a retry machine
AtRtc   == ev.step = "check_rtc"
AtMqtt  == ev.step = "check_mqtt_con"
AtCheck == AtRtc \/ AtMqtt
\* the counter and the flag of the machine whose check just ran
CounterNow == IF AtRtc THEN loop_rtc ELSE loop_mqtt
FlagNow    == IF AtRtc THEN ntc_flag ELSE mqtt_flag
\* the topics of the sends attempted by the last mqtt_check_msg
Topics == [k \in 1..Len(ev.pubs) |-> ev.pubs[k][1]]
\* the energy after this tick's integration, as tran_to_str formats it
EnergyStr == Fmt0f_mWh(pwr_start + cur_vol_v * cur_cur_mA)

\* C1: a retry machine attempts (upd_rtc / con_mqtt_server) only if, after
\* the increment of this tick, its counter is >= 3, its flag is 0 and the
\* link is up; right after an attempt, failed or not, its counter is 0.
C1_AttemptGuard ==
    (AtCheck /\ ev.try) =>
        /\ ev.cnt >= 3 /\ ev.flag = 0 /\ ev.link
        /\ CounterNow = 0

\* a failed attempt made when the counter had counted up from 0 to 3
C1_Witness == AtRtc /\ ev.try /\ ~ev.ok /\ ev.cnt = 3 /\ loop_rtc = 0

\* C2: the reset is atomic with respect to the tick (no tick runs between
\* cum_tim_s = 0 and con_pwr_mWh = 0), so when the reset handler has done
\* its second assignment both counters are 0.
C2_ResetAtomic ==
    (ev.step = "reset_pwr") => (cum_tim_s = 0 /\ con_pwr_mWh = 0)

\* C3: every invocation of timer_fun increases cum_tim_s by exactly 1, and
\* cum_tim_s never decreases except when the reset sets it to 0.
C3_ElapsedPerTick ==
    [][ /\ (tpc # "idle" /\ tpc' = "idle") => (cum_tim_s' = cum_start + 1)
        /\ (cum_tim_s' < cum_tim_s) => (pc = "reset_tim" /\ cum_tim_s' = 0)
      ]_vars

\* C4: with the link up, mqtt_check_msg attempts the sends of all six
\* fields, in the fixed order, whichever of them fail.
C4_AllFieldsSent ==
    (ev.step = "mqtt_check_msg" /\ ev.link) => Topics = PubFields

\* C5: a failed register read in get_pwr_V_ma leaves the Reading as it was
\* and the tick goes on with the next statement.
C5_SensorFaultHeld ==
    [][ (tpc = "get_pwr_V_ma" /\ ev'.step = "get_pwr_V_ma"
                              /\ ev'.exc = "sensor")
           => /\ cur_vol_v' = cur_vol_v /\ cur_cur_mA' = cur_cur_mA
              /\ cur_pwr_W' = cur_pwr_W
              /\ tpc' = "get_pwr_mWh"
      ]_vars

\* the steps the order of a tick is stated for
ClaimOrder == << "get_pwr_V_ma", "get_pwr_mWh", "check_rtc", "tran_to_str",
                 "show_msg", "check_mqtt_con", "mqtt_check_msg", "inc" >>
\* the next of those steps, seen from the statement about to run
NextClaimed == IF tpc = "led_toggle" THEN "check_rtc" ELSE tpc

C7_BootGrace == (AtCheck /\ nticks <= 3) => ~ev.try

\* C7 (as amended): in the first 3 ticks a retry machine attempts exactly
\* when the link is up at its check and it has not attempted before: the
\* counters start at 5, so the first tick can already attempt.
C7_FirstAttempt ==
    (AtCheck /\ nticks <= 3) => (ev.try <=> (ev.link /\ ev.prev = 0))

\* both kinds of check happen: an attempt in tick 1
C7_Witness == AtMqtt /\ nticks = 1 /\ ev.try /\ ev.cnt = LoopInit + 1

C9_OutcomeInFlag ==
    /\ (AtCheck /\ ev.try)
          => /\ FlagNow = (IF ev.ok THEN 1 ELSE 0)
             /\ ev.exc = "none" /\ tpc = After(ev.step)
    /\ (AtCheck /\ ev.prev > 0 /\ ev.flag = 0 /\ ev.link /\ ev.cnt >= 3)
          => ev.try

\* a successful attempt that follows a failed one
C9_Witness == AtRtc /\ ev.try /\ ev.ok /\ ev.prev > 0 /\ ntc_flag = 1

\* C10: in a tick during which the link is down there is no time-sync
\* attempt, no broker-connect attempt and no publish, and the tick still
\* runs to its end: it samples, integrates, formats, renders and increments
\* cum_tim_s.
C10_LinkDownTick ==
    /\ (AtCheck /\ ~ev.link) => (~ev.try /\ tpc = After(ev.step))
    /\ (ev.step = "mqtt_check_msg" /\ ~ev.link)
          => (ev.pubs = << >> /\ tpc = "inc")
    /\ (TickReturned /\ ~tk_up)
          => (ev.step = "inc" /\ cum_tim_s = cum_start + 1)

\* C11: once the flag of a retry machine is 1 it stays 1 in every later
\* state, whatever the link does, and the check of that machine makes no
\* further attempt.
C11_FlagSticky ==
    [][ /\ (ntc_flag = 1) => (ntc_flag' = 1)
        /\ (mqtt_flag = 1) => (mqtt_flag' = 1)
        /\ (tpc = "check_rtc" /\ ev'.step = "check_rtc" /\ ntc_flag = 1)
              => ~ev'.try
        /\ (tpc = "check_mqtt_con" /\ ev'.step = "check_mqtt_con"
                                   /\ mqtt_flag = 1)
              => ~ev'.try
      ]_vars

\* the broker was connected in tick 1; in tick 4 the link is down at the
\* time-sync check (that machine, not connected, does not retry although its
\* counter is 3) and up at the broker check: the flag is still 1 and, with
\* the counter at 3, no attempt is made
C11_Witness ==
    /\ AtMqtt /\ nticks = 4 /\ mqtt_last = 1 /\ mqtt_flag = 1
    /\ ev.link /\ ev.cnt = 3 /\ ~ev.try
    /\ ntc_flag = 0 /\ rtc_last = 1 /\ loop_rtc = 3

\* C12: in every state, the initial one included, loop_rtc and loop_mqtt
\* are in 0..39, and the check of a tick evaluates its guard on
\* (counter + 1) mod 40.
C12_CounterRange ==
    /\ loop_rtc \in 0..39 /\ loop_mqtt \in 0..39
    /\ [][ /\ loop_rtc' \in 0..39 /\ loop_mqtt' \in 0..39
           /\ (tpc = "check_rtc" /\ ev'.step = "check_rtc")
                 => /\ ev'.cnt = (loop_rtc + 1) % 40
                    /\ ev'.try <=> (ev'.cnt >= 3 /\ ev'.flag = 0 /\ ev'.link)
           /\ (tpc = "check_mqtt_con" /\ ev'.step = "check_mqtt_con")
                 => /\ ev'.cnt = (loop_mqtt + 1) % 40
                    /\ ev'.try <=> (ev'.cnt >= 3 /\ ev'.flag = 0 /\ ev'.link)
         ]_vars

\* the counter wraps from 39 to 0 in the 35th tick of an outage
C12_Witness == AtRtc /\ nticks = 35 /\ ev.cnt = 0 /\ ~ev.try /\ loop_rtc = 0

\* C13: when the Reading (V, I) has been the same over N consecutive ticks,
\* the first of them entered with energy 0, the energy after the N-th tick
\* is N * V * I / 3600 mWh (con_pwr_mWh counts in 1/3600 mWh).
C13_LinearEnergy ==
    (TickReturned /\ held_n > 0)
        => (con_pwr_mWh = held_n * cur_vol_v * cur_cur_mA)

\* C14: cur_cur_mA is never negative after a sample; when ina.current
\* delivers a negative value the sample stores current 0 and power 0, and
\* the integration of a tick whose current is 0 adds nothing to the energy.
C14_CurrentClamped ==
    /\ cur_cur_mA >= 0
    /\ (ev.step = "get_pwr_V_ma" /\ ev.raw < 0)
          => (cur_cur_mA = 0 /\ cur_pwr_W = 0 /\ tpc = "get_pwr_mWh")
    /\ (ev.step = "get_pwr_mWh" /\ cur_cur_mA = 0)
          => (con_pwr_mWh = pwr_start)

\* a negative current read in a tick that follows one with 600 mA
C14_Witness ==
    /\ ev.step = "get_pwr_V_ma" /\ ev.raw = -5 /\ cur_vol_v = 3
    /\ cur_cur_mA = 0 /\ cur_pwr_W = 0 /\ pwr_start = 1800

\* C15: when the start-up scan did not find exactly one device, the Reading
\* stays at its power-on default and the energy at 0 in every state, the
\* sample reads nothing from the sensor and raises nothing, and every tick
\* runs to its end and increases cum_tim_s by 1.
C15_NoSensor ==
    (addr_list # 1) =>
        /\ cur_vol_v = 0 /\ cur_cur_mA = 0 /\ cur_pwr_W = 0
        /\ con_pwr_mWh = 0
        /\ (ev.step = "get_pwr_V_ma")
              => (ev.exc = "none" /\ ev.raw = 0 /\ tpc = "get_pwr_mWh")
        /\ TickReturned => (ev.step = "inc" /\ cum_tim_s = cum_start + 1)

\* C16: a failing display write in show_msg or a failing send in
\* mqtt_check_msg does not end the tick: timer_fun goes on with its next
\* statement and so reaches the increment of cum_tim_s.
C16_SinkFaultTolerated ==
    /\ (ev.step = "show_msg" /\ ev.exc = "display")
          => (tpc = "check_mqtt_con")
    /\ (ev.step = "mqtt_check_msg" /\ ev.pub_err)
          => (ev.exc = "none" /\ tpc = "inc")
    /\ (ev.step = "inc") => (cum_tim_s = cum_start + 1)

\* the status the break test of a poll saw, when its reads agree
Steady(st) == \A k \in 1..Len(st) : st[k] = st[1]

\* C17: con_wifi always returns: it starts with a budget of 10, each poll
\* that finds the link still connecting uses up one unit, and with the
\* budget at 0 it returns; a poll returns early only when a status read is
\* negative or >= 3, and always when the status it sees is negative or >= 3.
C17_ConWifiReturns ==
    /\ [][ /\ (pc = "con_wifi" /\ ev'.step = "con_wifi") => (timeout' = 10)
           /\ (pc = "wifi_poll" /\ ev'.step = "wifi_poll") =>
                 /\ timeout \in 0..10
                 /\ (timeout = 0) => (pc' = "wifi_done" /\ ev'.st = << >>)
                 /\ (pc' = "wifi_poll") => (timeout' = timeout - 1)
                 /\ (pc' = "wifi_done" /\ timeout > 0)
                       => \E k \in 1..Len(ev'.st) :
                              ev'.st[k] < 0 \/ ev'.st[k] >= 3
                 /\ (timeout > 0 /\ Steady(ev'.st)
                                 /\ (ev'.st[1] < 0 \/ ev'.st[1] >= 3))
                       => (pc' = "wifi_done")
         ]_vars
    /\ (pc = "con_wifi") ~> (pc = "wifi_done")

\* the reconnect forced by key2 returns with its budget used up
C17_Witness ==
    /\ ev.step = "wifi_poll" /\ pc = "wifi_done" /\ wifi_ret = "key_scan"
    /\ timeout = 0 /\ ev.st = << >>

\* two decimal digits at least: a leading zero below 10
Two(n) == IF n < 10 THEN "0" \o str(n) ELSE str(n)

\* C18: the elapsed text of s seconds is H:M:S with H = s div 3600,
\* M = (s mod 3600) div 60, S = s mod 60, each with at least two digits, and
\* H is neither wrapped nor cut at 100 hours.
C18_ElapsedText ==
    (ev.step = "tran_to_str") =>
        /\ str_tim = Two(cum_tim_s \div 3600) \o ":"
                        \o Two((cum_tim_s % 3600) \div 60) \o ":"
                        \o Two(cum_tim_s % 60)
        /\ (cum_tim_s = 0) => (str_tim = "00:00:00")
        /\ (cum_tim_s = 59) => (str_tim = "00:00:59")
        /\ (cum_tim_s = 3661) => (str_tim = "01:01:01")
        /\ (cum_tim_s = 360000) => (str_tim = "100:00:00")
        /\ (cum_tim_s = 3600000) => (str_tim = "1000:00:00")

\* one hundred hours
C18_Witness ==
    ev.step = "tran_to_str" /\ cum_tim_s = 360000 /\ str_tim = "100:00:00"

\* the positions of main() inside key_scan and con_wifi
KeyPcs == {"key1", "reset_tim", "reset_pwr", "key2",
           "con_wifi", "wifi_poll", "wifi_done"}

\* C19: check_rtc with upd_rtc leaves loop_mqtt and mqtt_flag unchanged,
\* check_mqtt_con with con_mqtt_server leaves loop_rtc and ntc_flag
\* unchanged, and the steps of key_scan and con_wifi leave all four
\* unchanged.
C19_Independent ==
    [][ /\ (tpc = "check_rtc" /\ ev'.step = "check_rtc")
              => UNCHANGED <<loop_mqtt, mqtt_flag>>
        /\ (tpc = "check_mqtt_con" /\ ev'.step = "check_mqtt_con")
              => UNCHANGED <<loop_rtc, ntc_flag>>
        /\ (tpc = "idle" /\ tpc' = "idle" /\ pc \in KeyPcs)
              => UNCHANGED <<loop_rtc, ntc_flag, loop_mqtt, mqtt_flag>>
      ]_vars

\* a tick synchronised the time and failed to connect the broker; the
\* reconnect forced by key2 has then run, and both machines are as the tick
\* left them
C19_Witness ==
    /\ ev.step = "wifi_done" /\ wifi_ret = "key_scan"
    /\ rtc_last = 1 /\ ntc_flag = 1 /\ loop_rtc = 0
    /\ mqtt_last = 1 /\ mqtt_flag = 0 /\ loop_mqtt = 0

\* C20: a retry machine whose flag is 0 never sees the link up at its check
\* in 4 consecutive ticks without making an attempt in one of them; and an
\* attempt that follows a failed one, the link having been up at every check
\* in between, comes 3 ticks after it.
C20_BoundedResponse ==
    /\ wait_rtc <= 3 /\ wait_mqtt <= 3
    /\ (AtCheck /\ ev.flag = 0 /\ ev.link /\ ev.wait = 3) => ev.try
    /\ (AtCheck /\ ev.try /\ ev.prev > 0 /\ ev.wait = nticks - ev.prev - 1)
          => (nticks - ev.prev = 3)

\* the worst case: the link comes up when the counter wraps from 39 to 0;
\* the checks of ticks 35, 36 and 37 see the counter at 0, 1 and 2 and the
\* check of tick 38, the fourth with the link up, makes the attempt
C20_Witness ==
    /\ AtRtc /\ nticks = 38 /\ ev.prev = 0
    /\ ev.link /\ ev.wait = 3 /\ ev.cnt = 3 /\ ev.try

\* C21: mqtt_check_msg sends exactly when the link is up at its call,
\* whatever mqtt_flag is: with the link up the send of the first field of
\* the snapshot is attempted, also when no broker connect has succeeded.
C21_LinkGatesPublish ==
    (ev.step = "mqtt_check_msg") =>
        /\ ev.link <=> (Len(ev.pubs) >= 1)
        /\ ev.link => (ev.pubs[1] = <<"str_tim", str_tim>>)
        /\ ev.exc = "none" /\ tpc = "inc"

\* the link was down at the broker check of tick 1 and is up at the
\* publisher: no connect has ever been attempted and the snapshot is sent
C21_Witness ==
    /\ ev.step = "mqtt_check_msg" /\ ev.link /\ nticks = 1
    /\ mqtt_flag = 0 /\ mqtt_last = 0
    /\ Len(ev.pubs) = 6 /\ ~ev.pub_err

====
